---- MODULE Spec2Model ----
(***************************************************************************)
(* Model of mumble_llm_chat.py: a Mumble chat bot that forwards chat text  *)
(* to a completion backend and either replies with the generated text or  *)
(* executes an embedded moderation command, under a connection loop with  *)
(* bounded retries.                                                        *)
(*                                                                         *)
(* Text is a sequence of one-character strings, so that strip, split,      *)
(* replace, lower and startswith are computed character by character as    *)
(* Python computes them.                                                   *)
(***************************************************************************)
EXTENDS Integers, Sequences, FiniteSets, TLC

(***************************************************************************)
(* Configuration (src lines 8-15) and literals of the source.              *)
(***************************************************************************)
MUMBLE_USERNAME == <<"C","h","a","t","B","o","t">>
MUMBLE_CHANNEL == <<"R","o","o","t">>
MARKER == <<"C","O","M","M","A","N","D",":">>
V_MOVE == <<"/","m","o","v","e">>
V_MUTE == <<"/","m","u","t","e">>
V_UNMUTE == <<"/","u","n","m","u","t","e">>
V_KICK == <<"/","k","i","c","k">>
V_HELP == <<"/","h","e","l","p">>
HELP_MESSAGE == <<"h","e","l","p"," ","t","e","x","t">>
retry_attempts == 5

(***************************************************************************)
(* Python str primitives used by the source.                               *)
(***************************************************************************)
Whitespace == {" ", "\t", "\n", "\r"}

UpperChars == <<"A","B","C","D","E","F","G","H","I","J","K","L","M",
                "N","O","P","Q","R","S","T","U","V","W","X","Y","Z">>
LowerChars == <<"a","b","c","d","e","f","g","h","i","j","k","l","m",
                "n","o","p","q","r","s","t","u","v","w","x","y","z">>

LowerChar(c) ==
    IF \E i \in 1..26 : UpperChars[i] = c
    THEN LowerChars[CHOOSE i \in 1..26 : UpperChars[i] = c]
    ELSE c

\* str.lower()
Lower(s) == [i \in 1..Len(s) |-> LowerChar(s[i])]

\* str.startswith(p)
StartsWith(s, p) == Len(s) >= Len(p) /\ SubSeq(s, 1, Len(p)) = p

RECURSIVE LStrip(_)
LStrip(s) ==
    IF s = <<>> THEN s
    ELSE IF Head(s) \in Whitespace THEN LStrip(Tail(s)) ELSE s

RECURSIVE RStrip(_)
RStrip(s) ==
    IF s = <<>> THEN s
    ELSE IF s[Len(s)] \in Whitespace THEN RStrip(SubSeq(s, 1, Len(s) - 1)) ELSE s

\* str.strip()
Strip(s) == RStrip(LStrip(s))

\* str.replace(old, ""): every non-overlapping occurrence, left to right
RECURSIVE Remove(_, _)
Remove(s, old) ==
    IF Len(s) < Len(old) THEN s
    ELSE IF StartsWith(s, old) THEN Remove(SubSeq(s, Len(old) + 1, Len(s)), old)
    ELSE <<Head(s)>> \o Remove(Tail(s), old)

\* length of the leading run of non-whitespace characters
RECURSIVE WordLen(_)
WordLen(s) ==
    IF s = <<>> \/ Head(s) \in Whitespace THEN 0 ELSE 1 + WordLen(Tail(s))

\* str.split() without arguments: the whitespace-separated words
RECURSIVE Split(_)
Split(s) ==
    LET t == LStrip(s) IN
    IF t = <<>> THEN <<>>
    ELSE LET n == WordLen(t) IN <<SubSeq(t, 1, n)>> \o Split(SubSeq(t, n + 1, Len(t)))

(***************************************************************************)
(* The completion backend, as generate_response sees it (lines 49-51):     *)
(* requests.post raises, raise_for_status raises, response.json() raises,  *)
(* or response.json() yields a JSON value.                                 *)
(*   body.t    : "null", "false", "true", "num", "str", "list" or "obj"    *)
(*   body.n    : the number, or the length of the list                     *)
(*   body.s    : the text of a JSON string                                 *)
(*   body.has  : the object has a "content" key; body.other: it has others *)
(*   body.c    : the value of "content" (t, n, s as above)                 *)
(***************************************************************************)
JScalar(t, n, s) == [t |-> t, n |-> n, s |-> s]
JNone == JScalar("null", 0, <<>>)
JBody(t, n, s, has, other, c) ==
    [t |-> t, n |-> n, s |-> s, has |-> has, other |-> other, c |-> c]
JValue(t, n, s) == JBody(t, n, s, FALSE, FALSE, JNone)
JObject(has, other, c) == JBody("obj", 0, <<>>, has, other, c)

Backend(kind, body) == [kind |-> kind, body |-> body]
BackendFail(kind) == Backend(kind, JValue("null", 0, <<>>))

\* Python truth value of a decoded JSON value
Truthy(b) ==
    CASE b.t = "null" -> FALSE
      [] b.t = "false" -> FALSE
      [] b.t = "true" -> TRUE
      [] b.t = "num" -> b.n # 0
      [] b.t = "str" -> b.s # <<>>
      [] b.t = "list" -> b.n # 0
      [] b.t = "obj" -> b.has \/ b.other

\* what a call returns: a value (None or text) or a raised exception
RetNone == [kind |-> "return", none |-> TRUE, s |-> <<>>, exc |-> "-"]
RetText(s) == [kind |-> "return", none |-> FALSE, s |-> s, exc |-> "-"]
Raise(exc) == [kind |-> "raise", none |-> FALSE, s |-> <<>>, exc |-> exc]

\* ContentOf without the .strip()
ContentOf_NoStrip(b) ==
    IF ~Truthy(b) THEN RetNone
    ELSE IF b.t # "obj" THEN Raise("AttributeError")
    ELSE IF ~b.has THEN RetText(<<>>)
    ELSE IF b.c.t # "str" THEN Raise("AttributeError")
    ELSE RetText(b.c.s)

\* response.json().get("content", "").strip() if response.json() else None (line 51)
ContentOf(b) ==
    IF ~Truthy(b) THEN RetNone
    ELSE IF b.t # "obj" THEN Raise("AttributeError")      \* no .get on list, str, int, bool
    ELSE IF ~b.has THEN RetText(Strip(<<>>))              \* .get default ""
    ELSE IF b.c.t # "str" THEN Raise("AttributeError")    \* no .strip on None, int, list
    ELSE RetText(Strip(b.c.s))

\* generate_response (lines 39-54): only requests.exceptions.RequestException
\* is caught; response.json() raises requests' JSONDecodeError, a
\* RequestException, on a body that is not JSON.
generate_response(backend) ==
    IF backend.kind \in {"conn_refused", "timeout", "http_error", "bad_json"}
    THEN RetNone
    ELSE ContentOf(backend.body)

(***************************************************************************)
(* The chat server as seen through a session handle: the names that the    *)
(* user and channel registries resolve, and which external call raises.    *)
(***************************************************************************)
FailPoints == {"none", "find_user", "find_channel", "call"}

\* channel["channel_id"] of a channel found by name
ChannelId(name) == IF name = MUMBLE_CHANNEL THEN 0 ELSE 1 + Len(name)

\* a call made on the chat server: op on user/channel `name` through session
\* handle sid; chan is the channel id of a move, text the text of a send, ok
\* whether the call returned (FALSE: it raised)
Call(op, sid, name, chan, text, ok) ==
    [op |-> op, sid |-> sid, name |-> name, chan |-> chan, text |-> text, ok |-> ok]
LogRec(lvl, msg, a, b) == [lvl |-> lvl, msg |-> msg, a |-> a, b |-> b]
Outcome(calls, log) == [calls |-> calls, log |-> log]

\* ExecFailed with the except clause swallowing the exception silently
ExecFailed_Silent(calls) == Outcome(calls, <<>>)

\* except Exception (lines 118-119)
ExecFailed(calls) ==
    Outcome(calls, <<LogRec("error", "Failed to execute command", <<>>, <<>>)>>)

\* mumble.channels.find_by_name(MUMBLE_CHANNEL).send_text_message(text)
\* (lines 112, 145): raised = the lookup raised, found nothing (None has no
\* send_text_message) or the send raised
SendHome(m, C, fail, text) ==
    IF fail = "find_channel" \/ MUMBLE_CHANNEL \notin C
    THEN [calls |-> <<>>, raised |-> TRUE]
    ELSE [calls |-> <<Call("send", m, MUMBLE_CHANNEL, 0 - 1, text, fail # "call")>>,
          raised |-> fail = "call"]

\* UserAction that also announces what it did in the home channel
UserAction_AlsoReplies(op, done, parts, m, U, fail) ==
    Outcome(<<Call(op, m, parts[2], 0 - 1, <<>>, TRUE),
              Call("send", m, MUMBLE_CHANNEL, 0 - 1, parts[2], TRUE)>>,
            <<LogRec("info", done, parts[2], <<>>)>>)

\* the /mute, /unmute and /kick branches (lines 76-101)
UserAction(op, done, parts, m, U, fail) ==
    LET username == parts[2] IN
    IF fail = "find_user" THEN ExecFailed(<<>>)
    ELSE IF username \in U
    THEN IF fail = "call"
         THEN ExecFailed(<<Call(op, m, username, 0 - 1, <<>>, FALSE)>>)
         ELSE Outcome(<<Call(op, m, username, 0 - 1, <<>>, TRUE)>>,
                      <<LogRec("info", done, username, <<>>)>>)
    ELSE Outcome(<<>>, <<LogRec("error", "User not found", username, <<>>)>>)

\* the /move branch (lines 66-74)
MoveAction(parts, m, U, C, fail) ==
    LET username == parts[2]
        channel == parts[3]
    IN  IF fail \in {"find_user", "find_channel"} THEN ExecFailed(<<>>)
        ELSE IF username \in U /\ channel \in C
        THEN IF fail = "call"
             THEN ExecFailed(<<Call("move", m, username, ChannelId(channel), <<>>, FALSE)>>)
             ELSE Outcome(<<Call("move", m, username, ChannelId(channel), <<>>, TRUE)>>,
                          <<LogRec("info", "Moved", username, channel)>>)
        ELSE Outcome(<<>>, <<LogRec("error", "User or channel not found", username, channel)>>)

\* the /help branch (lines 103-113)
HelpAction(m, C, fail) ==
    LET sent == SendHome(m, C, fail, HELP_MESSAGE) IN
    IF sent.raised THEN ExecFailed(sent.calls)
    ELSE Outcome(sent.calls, <<LogRec("info", "Displayed help message", <<>>, <<>>)>>)

\* command.replace("COMMAND:", "").strip() (line 62)
StripMarker(command) == Strip(Remove(command, MARKER))

\* execute_command (lines 56-119) through session handle m, whose registries
\* resolve the user names U and the channel names C
execute_command(command, m, U, C, fail) ==
    IF ~StartsWith(command, MARKER) THEN Outcome(<<>>, <<>>)
    ELSE
    LET cmd == StripMarker(command)
        parts == Split(cmd)
    IN  IF parts = <<>> THEN ExecFailed(<<>>)              \* parts[0]: IndexError
        ELSE
        LET action == Lower(parts[1]) IN
        CASE action = V_MOVE /\ Len(parts) = 3 -> MoveAction(parts, m, U, C, fail)
          [] action = V_MUTE /\ Len(parts) = 2 -> UserAction("mute", "Muted", parts, m, U, fail)
          [] action = V_UNMUTE /\ Len(parts) = 2 -> UserAction("unmute", "Unmuted", parts, m, U, fail)
          [] action = V_KICK /\ Len(parts) = 2 -> UserAction("kick", "Kicked", parts, m, U, fail)
          [] action = V_HELP -> HelpAction(m, C, fail)
          [] OTHER -> Outcome(<<>>, <<LogRec("error", "Invalid command", cmd, <<>>)>>)

(***************************************************************************)
(* on_message_received (lines 121-149).                                     *)
(***************************************************************************)
Message(actor, text) == [actor |-> actor, message |-> text]
NoMsg == Message(<<>>, <<>>)

\* the record of one invocation of on_message_received: the session whose
\* callback ran, the message, the backend's outcome and the server as the
\* invocation met it (env), whether generate_response was called, how the
\* invocation ended ("returned" or "raised"), the calls made on the chat
\* server and the log records written
Env(m, U, C, fail) == [m |-> m, U |-> U, C |-> C, fail |-> fail]
NoEnv == Env(0, {}, {}, "none")
Handled(sid, msg, backend, env, gen, result, calls, log) ==
    [sid |-> sid, msg |-> msg, backend |-> backend, env |-> env, gen |-> gen,
     result |-> result, calls |-> calls, log |-> log]
NotHandled ==
    Handled(0, NoMsg, BackendFail("-"), NoEnv, FALSE, "-", <<>>, <<>>)

\* IsOwnMessage comparing the text of the message, not its author
IsOwnMessage_ComparesText(msg) == msg.message = MUMBLE_USERNAME

\* if user == MUMBLE_USERNAME: return (lines 128-130)
IsOwnMessage(msg) == msg.actor = MUMBLE_USERNAME

ReceivedLog(msg) ==
    LogRec("info", "Received message", msg.actor, Strip(msg.message))

\* Respond without the try/except around the send (lines 144-147)
Respond_SendUnguarded(sid, msg, backend, m, U, C, fail) ==
    LET r == generate_response(backend)
        env == Env(m, U, C, fail)
        received == <<ReceivedLog(msg)>>
    IN  IF r.kind = "raise"
        THEN Handled(sid, msg, backend, env, TRUE, "raised", <<>>, received)
        ELSE IF r.none \/ r.s = <<>>
        THEN Handled(sid, msg, backend, env, TRUE, "returned", <<>>,
                 received \o <<LogRec("warning", "No response generated", <<>>, <<>>)>>)
        ELSE
        LET response == r.s
            generated == received \o <<LogRec("info", "Generated response", response, <<>>)>>
        IN  IF StartsWith(response, MARKER)
            THEN LET o == execute_command(response, m, U, C, fail)
                 IN  Handled(sid, msg, backend, env, TRUE, "returned", o.calls, generated \o o.log)
            ELSE LET sent == SendHome(m, C, fail, response)
                 IN  Handled(sid, msg, backend, env, TRUE,
                         IF sent.raised THEN "raised" ELSE "returned", sent.calls, generated)

\* lines 135-149: the rest of the callback once generate_response has the
\* backend's outcome, through the session handle m that is current then
Respond(sid, msg, backend, m, U, C, fail) ==
    LET r == generate_response(backend)
        env == Env(m, U, C, fail)
        received == <<ReceivedLog(msg)>>
    IN  IF r.kind = "raise"
        THEN Handled(sid, msg, backend, env, TRUE, "raised", <<>>, received)
        ELSE IF r.none \/ r.s = <<>>
        THEN Handled(sid, msg, backend, env, TRUE, "returned", <<>>,
                 received \o <<LogRec("warning", "No response generated", <<>>, <<>>)>>)
        ELSE
        LET response == r.s
            generated == received \o <<LogRec("info", "Generated response", response, <<>>)>>
        IN  IF StartsWith(response, MARKER)
            THEN LET o == execute_command(response, m, U, C, fail)
                 IN  Handled(sid, msg, backend, env, TRUE, "returned", o.calls, generated \o o.log)
            ELSE LET sent == SendHome(m, C, fail, response)
                 IN  Handled(sid, msg, backend, env, TRUE, "returned", sent.calls,
                         IF sent.raised
                         THEN generated \o <<LogRec("error", "Failed to send message", <<>>, <<>>)>>
                         ELSE generated)

(***************************************************************************)
(* Bounds and input sets.                                                  *)
(***************************************************************************)
MaxMsgs == 2
MaxRegChanges == 1
MaxArgs == 3

Al == <<"A","l">>
Bo == <<"B","o">>
Pub == <<"P","u","b">>
UserPool == {Al, Bo}
ChannelPool == {MUMBLE_CHANNEL, Pub}
Actors == {MUMBLE_USERNAME, Al}
Messages == {Message(a, <<" ","h","i"," ">>) : a \in Actors}

Sessions == 1..retry_attempts

VARIABLES
    pc,          \* where main() is
    attempt,     \* main's failed-attempt counter
    mumble,      \* the global session handle: 0 = not bound, else a session
    sessions,    \* per session object: state, callback registered
    pending,     \* what main does once the finally clause is through
    interrupted, \* a KeyboardInterrupt has been delivered to main
    exit,        \* how main() ended
    connects,    \* calls of connect_to_mumble
    sleeps,      \* completed time.sleep(5)
    mainLog,     \* log messages written by main and connect_to_mumble
    users,       \* names in the server's user registry
    channels,    \* names in the server's channel registry
    regChanges,  \* registry changes so far
    inflight,    \* per session: the message its callback is handling
    last,        \* the most recent finished invocation of the callback
    msgs,        \* messages delivered so far
    genCalls     \* calls of generate_response so far

mainVars == <<pc, attempt, mumble, pending, interrupted, exit, connects, sleeps, mainLog>>
serverVars == <<users, channels, regChanges>>
handlerVars == <<inflight, last, msgs, genCalls>>
vars == <<pc, attempt, mumble, sessions, pending, interrupted, exit, connects,
          sleeps, mainLog, users, channels, regChanges, inflight, last, msgs, genCalls>>

\* a session object: its state, whether the callback is registered, and its
\* user and channel registries as they were when its thread last ran (while
\* it is started they are the server's)
Session(state, cb, U, C) == [state |-> state, cb |-> cb, users |-> U, channels |-> C]
NoSession == Session("none", FALSE, {}, {})

Init ==
    /\ pc = "while"
    /\ attempt = 0
    /\ mumble = 0
    /\ sessions = [s \in Sessions |-> NoSession]
    /\ pending = "none"
    /\ interrupted = FALSE
    /\ exit = "running"
    /\ connects = 0
    /\ sleeps = 0
    /\ mainLog = {}
    /\ users = UserPool
    /\ channels = ChannelPool
    /\ regChanges = 0
    /\ inflight = [s \in Sessions |-> NoMsg]
    /\ last = NotHandled
    /\ msgs = 0
    /\ genCalls = 0

(***************************************************************************)
(* main() and connect_to_mumble() (lines 151-199): the foreground thread.  *)
(***************************************************************************)
Created == {s \in Sessions : sessions[s].state # "none"}

\* UsersOf reading the names the session object had stored
UsersOf_AsStored(s) == sessions[s].users

\* the user and channel names that the registries of session s resolve
UsersOf(s) == IF sessions[s].state = "started" THEN users ELSE sessions[s].users
ChannelsOf(s) == IF sessions[s].state = "started" THEN channels ELSE sessions[s].channels

\* session s once the global no longer names it: the program reads registries
\* only through the global, so those of s are out of its reach
Unbound(s) == Session(sessions[s].state, sessions[s].cb, {}, {})

\* session s once its thread no longer runs: stopped by stop(), or ended by
\* itself. It delivers nothing any more, so of its callback table nothing is
\* kept; its registries stay as they are
Halted(s, state) ==
    Session(state, IF state = "stopped" THEN FALSE ELSE sessions[s].cb,
            UsersOf(s), ChannelsOf(s))

\* except Exception in connect_to_mumble (lines 165-167), which re-raises
\* into except Exception in main (lines 188-196)
HandleFailure ==
    /\ attempt' = attempt + 1
    /\ IF attempt + 1 < retry_attempts
       THEN /\ pc' = "retry_sleep"
            /\ pending' = pending
            /\ mainLog' = mainLog \cup {"Failed to connect", "Unexpected error", "Retrying connection"}
       ELSE /\ pc' = "finally"
            /\ pending' = "break_max"
            /\ mainLog' = mainLog \cup {"Failed to connect", "Unexpected error", "Max retry attempts reached"}
    /\ UNCHANGED <<interrupted, exit, connects, sleeps>>

\* while attempt < retry_attempts: try: connect_to_mumble() (lines 176-179)
LoopTest ==
    /\ pc = "while"
    /\ IF attempt < retry_attempts
       THEN pc' = "construct" /\ connects' = connects + 1 /\ exit' = exit
       ELSE pc' = "done" /\ connects' = connects /\ exit' = "loop_end"
    /\ UNCHANGED <<attempt, mumble, sessions, pending, interrupted, sleeps, mainLog>>
    /\ UNCHANGED <<serverVars, handlerVars>>

\* mumble = Mumble(...) (line 157)
Construct ==
    /\ pc = "construct"
    /\ LET s == Cardinality(Created) + 1 IN
       /\ mumble' = s
       /\ sessions' = [t \in Sessions |->
                          IF t = s THEN Session("created", FALSE, {}, {})
                          ELSE Unbound(t)]
    /\ pc' = "set_callback"
    /\ UNCHANGED <<attempt, pending, interrupted, exit, connects, sleeps, mainLog>>
    /\ UNCHANGED <<serverVars, handlerVars>>

ConstructFails ==
    /\ pc = "construct"
    /\ HandleFailure
    /\ UNCHANGED <<mumble, sessions, serverVars, handlerVars>>

\* SetCallback that registers nothing
SetCallback_Skipped ==
    /\ pc = "set_callback"
    /\ pc' = "start"
    /\ UNCHANGED <<attempt, mumble, sessions, pending, interrupted, exit, connects, sleeps, mainLog>>
    /\ UNCHANGED <<serverVars, handlerVars>>

\* mumble.callbacks.set_callback("text_received", on_message_received) (line 158)
SetCallback ==
    /\ pc = "set_callback"
    /\ sessions' = [sessions EXCEPT ![mumble].cb = TRUE]
    /\ pc' = "start"
    /\ UNCHANGED <<attempt, mumble, pending, interrupted, exit, connects, sleeps, mainLog>>
    /\ UNCHANGED <<serverVars, handlerVars>>

SetCallbackFails ==
    /\ pc = "set_callback"
    /\ HandleFailure
    /\ UNCHANGED <<mumble, sessions, serverVars, handlerVars>>

\* mumble.start() (line 161)
Start ==
    /\ pc = "start"
    /\ sessions' = [sessions EXCEPT ![mumble].state = "started"]
    /\ pc' = "is_ready"
    /\ UNCHANGED <<attempt, mumble, pending, interrupted, exit, connects, sleeps, mainLog>>
    /\ UNCHANGED <<serverVars, handlerVars>>

StartFails ==
    /\ pc = "start"
    /\ HandleFailure
    /\ UNCHANGED <<mumble, sessions, serverVars, handlerVars>>

\* IsReady that starts the count of failed attempts afresh once connected
IsReady_ResetsAttempt ==
    /\ pc = "is_ready"
    /\ pc' = "idle"
    /\ attempt' = 0
    /\ mainLog' = mainLog \cup {"Connected"}
    /\ UNCHANGED <<mumble, sessions, pending, interrupted, exit, connects, sleeps>>
    /\ UNCHANGED <<serverVars, handlerVars>>

\* mumble.is_ready() and the log line (lines 162-164)
IsReady ==
    /\ pc = "is_ready"
    /\ pc' = "idle"
    /\ mainLog' = mainLog \cup {"Connected"}
    /\ UNCHANGED <<attempt, mumble, sessions, pending, interrupted, exit, connects, sleeps>>
    /\ UNCHANGED <<serverVars, handlerVars>>

IsReadyFails ==
    /\ pc = "is_ready"
    /\ HandleFailure
    /\ UNCHANGED <<mumble, sessions, serverVars, handlerVars>>

\* while True: time.sleep(1) (lines 182-183): nothing is read, nothing changes
Idle ==
    /\ pc = "idle"
    /\ UNCHANGED vars

\* Interrupt with `continue` where the source has `break`
Interrupt_Continues ==
    /\ pc \in {"construct", "set_callback", "start", "is_ready", "idle"}
    /\ ~interrupted
    /\ interrupted' = TRUE
    /\ mainLog' = mainLog \cup {"Bot shutting down"}
    /\ pending' = "continue"
    /\ pc' = "finally"
    /\ UNCHANGED <<attempt, mumble, sessions, exit, connects, sleeps>>
    /\ UNCHANGED <<serverVars, handlerVars>>

\* KeyboardInterrupt inside the try body: except KeyboardInterrupt (lines 185-187)
Interrupt ==
    /\ pc \in {"construct", "set_callback", "start", "is_ready", "idle"}
    /\ ~interrupted
    /\ interrupted' = TRUE
    /\ mainLog' = mainLog \cup {"Bot shutting down"}
    /\ pending' = "break_interrupt"
    /\ pc' = "finally"
    /\ UNCHANGED <<attempt, mumble, sessions, exit, connects, sleeps>>
    /\ UNCHANGED <<serverVars, handlerVars>>

\* KeyboardInterrupt during time.sleep(5) (line 193), inside the except
\* Exception clause: no clause of this try catches it, the finally clause
\* runs and it leaves main()
InterruptInDelay ==
    /\ pc = "retry_sleep"
    /\ ~interrupted
    /\ interrupted' = TRUE
    /\ pending' = "raise"
    /\ pc' = "finally"
    /\ UNCHANGED <<attempt, mumble, sessions, exit, connects, sleeps, mainLog>>
    /\ UNCHANGED <<serverVars, handlerVars>>

\* time.sleep(5) returns (line 193)
RetryDelay ==
    /\ pc = "retry_sleep"
    /\ sleeps' = sleeps + 1
    /\ pending' = "continue"
    /\ pc' = "finally"
    /\ UNCHANGED <<attempt, mumble, sessions, interrupted, exit, connects, mainLog>>
    /\ UNCHANGED <<serverVars, handlerVars>>

\* where main goes once the finally clause is through
AfterFinally ==
    CASE pending = "continue" -> [pc |-> "while", exit |-> exit]
      [] pending = "break_max" -> [pc |-> "done", exit |-> "max_retries"]
      [] pending = "break_interrupt" -> [pc |-> "done", exit |-> "interrupt"]
      [] pending = "raise" -> [pc |-> "done", exit |-> "KeyboardInterrupt"]

\* finally: if mumble: (line 198) with the global never assigned: NameError
FinallyUnbound ==
    /\ pc = "finally"
    /\ mumble = 0
    /\ pc' = "done"
    /\ exit' = "NameError"
    /\ pending' = "none"
    /\ UNCHANGED <<attempt, mumble, sessions, interrupted, connects, sleeps, mainLog>>
    /\ UNCHANGED <<serverVars, handlerVars>>

\* FinallyStop without the call of stop()
FinallyStop_Skips ==
    /\ pc = "finally"
    /\ mumble # 0
    /\ pc' = AfterFinally.pc
    /\ exit' = AfterFinally.exit
    /\ pending' = "none"
    /\ UNCHANGED <<attempt, mumble, sessions, interrupted, connects, sleeps, mainLog>>
    /\ UNCHANGED <<serverVars, handlerVars>>

\* finally: if mumble: mumble.stop() (lines 197-199), stop() returning
FinallyStop ==
    /\ pc = "finally"
    /\ mumble # 0
    /\ sessions' = [sessions EXCEPT ![mumble] = Halted(mumble, "stopped")]
    /\ pc' = AfterFinally.pc
    /\ exit' = AfterFinally.exit
    /\ pending' = "none"
    /\ UNCHANGED <<attempt, mumble, interrupted, connects, sleeps, mainLog>>
    /\ UNCHANGED <<serverVars, handlerVars>>

\* finally: mumble.stop() raising: the exception leaves main()
FinallyStopFails ==
    /\ pc = "finally"
    /\ mumble # 0
    /\ sessions' = sessions
    /\ pc' = "done"
    /\ exit' = "stop_raised"
    /\ pending' = "none"
    /\ UNCHANGED <<attempt, mumble, interrupted, connects, sleeps, mainLog>>
    /\ UNCHANGED <<serverVars, handlerVars>>

MainThread ==
    \/ LoopTest
    \/ Construct \/ ConstructFails
    \/ SetCallback \/ SetCallbackFails
    \/ Start \/ StartFails
    \/ IsReady \/ IsReadyFails
    \/ Idle
    \/ RetryDelay
    \/ FinallyUnbound \/ FinallyStop \/ FinallyStopFails

(***************************************************************************)
(* The transport thread of a session: it delivers text messages to the     *)
(* registered callback one at a time, and the server's registries change.  *)
(***************************************************************************)
Text(s) == JObject(TRUE, FALSE, JScalar("str", 0, s))

Sure == <<"S","u","r","e">>
KickAl == MARKER \o V_KICK \o <<" ">> \o Al
MuteBo == MARKER \o V_MUTE \o <<" ">> \o Bo
UnmuteAl == MARKER \o V_UNMUTE \o <<" ">> \o Al
MoveBoPub == MARKER \o V_MOVE \o <<" ">> \o Bo \o <<" ">> \o Pub

\* backend outcomes and failing calls drawn while the whole program runs
FewBackends ==
    { BackendFail("timeout"),
      Backend("ok", JValue("list", 1, <<>>)),
      Backend("ok", Text(Sure)),
      Backend("ok", Text(KickAl)) }
FewFails == {"none", "call"}

\* backend outcomes drawn for a connected session: every way the request
\* fails, every shape of JSON body, and contents of every kind
Contents ==
    { <<>>, <<" ", " ">>, Sure, <<" ">> \o Sure \o <<" ", "\n">>,
      Sure \o <<" ">> \o KickAl,
      KickAl, MuteBo, UnmuteAl, MoveBoPub,
      <<" ">> \o MARKER \o V_HELP \o <<" ">>, MARKER }
Bodies ==
    { JValue("null", 0, <<>>), JValue("false", 0, <<>>), JValue("true", 0, <<>>),
      JValue("num", 0, <<>>), JValue("num", 5, <<>>),
      JValue("str", 0, <<>>), JValue("str", 0, Sure),
      JValue("list", 0, <<>>), JValue("list", 1, <<>>),
      JObject(FALSE, FALSE, JNone), JObject(FALSE, TRUE, JNone),
      JObject(TRUE, FALSE, JNone), JObject(TRUE, FALSE, JScalar("num", 5, <<>>)),
      JObject(TRUE, TRUE, JScalar("list", 0, <<>>)),
      JObject(TRUE, TRUE, JScalar("str", 0, Sure)) }
      \cup { Text(c) : c \in Contents }
Backends ==
    { BackendFail(k) : k \in {"conn_refused", "timeout", "http_error", "bad_json"} }
      \cup { Backend("ok", b) : b \in Bodies }

\* generated replies that start with the marker: a verb and up to MaxArgs
\* argument words
RECURSIVE JoinWords(_)
JoinWords(ws) ==
    IF ws = <<>> THEN <<>>
    ELSE IF Len(ws) = 1 THEN ws[1]
    ELSE ws[1] \o <<" ">> \o JoinWords(Tail(ws))

Verbs == { V_MOVE, V_MUTE, V_UNMUTE, V_KICK, V_HELP,
           <<"/","M","U","T","E">>, <<"/","b","a","n">> }
ArgWords == { Al, Pub, MARKER \o Al }
ArgLists == UNION { [1..n -> ArgWords] : n \in 0..MaxArgs }
CommandReplies ==
    { MARKER \o sep \o JoinWords(<<v>> \o a) :
          sep \in {<<>>, <<" ">>}, v \in Verbs, a \in ArgLists }
      \cup { MARKER, MARKER \o <<" ", " ">>, MARKER \o MARKER \o V_HELP,
               MARKER \o V_MUTE \o <<" ">> \o MARKER,
               MARKER \o V_MOVE \o <<" ">> \o MARKER \o <<" ">> \o Al \o <<" ">> \o Pub }
CommandBackends == { Backend("ok", Text(c)) : c \in CommandReplies }

\* the transport calls on_message_received(message): lines 125-132, then the
\* callback blocks in generate_response (line 135)
Deliver(s, msg) ==
    /\ pc # "done"
    /\ msgs < MaxMsgs
    /\ sessions[s].state = "started"
    /\ sessions[s].cb
    /\ inflight[s] = NoMsg
    /\ msgs' = msgs + 1
    /\ IF IsOwnMessage(msg)
       THEN /\ last' = Handled(s, msg, BackendFail("-"), NoEnv, FALSE, "returned", <<>>, <<>>)
            /\ UNCHANGED <<inflight, genCalls>>
       ELSE /\ inflight' = [inflight EXCEPT ![s] = msg]
            /\ genCalls' = genCalls + 1
            /\ last' = last
    /\ UNCHANGED <<mainVars, sessions, serverVars>>

\* generate_response comes back with the backend's outcome and the callback
\* runs to its end (lines 135-149); an exception leaving the callback may or
\* may not end the transport thread
Complete(s, backend, fail) ==
    /\ pc # "done"
    /\ inflight[s] # NoMsg
    /\ last' = Respond(s, inflight[s], backend, mumble, UsersOf(mumble), ChannelsOf(mumble), fail)
    /\ inflight' = [inflight EXCEPT ![s] = NoMsg]
    /\ \/ sessions' = sessions
       \/ /\ last'.result = "raised"
          /\ sessions[s].state = "started"
          /\ sessions' = [sessions EXCEPT ![s] = Halted(s, "ended")]
    /\ UNCHANGED <<mainVars, serverVars, msgs, genCalls>>

\* the session ends by itself (network drop, protocol error) in its own thread
SessionEnds(s) ==
    /\ pc # "done"
    /\ sessions[s].state = "started"
    /\ sessions' = [sessions EXCEPT ![s] = Halted(s, "ended")]
    /\ UNCHANGED <<mainVars, serverVars, handlerVars>>

Toggle(set, x) == IF x \in set THEN set \ {x} ELSE set \cup {x}

\* a user or a channel joins or leaves the server
RegistryChange ==
    /\ pc # "done"
    /\ regChanges < MaxRegChanges
    /\ regChanges' = regChanges + 1
    /\ \/ \E u \in UserPool : users' = Toggle(users, u) /\ channels' = channels
       \/ \E c \in ChannelPool : channels' = Toggle(channels, c) /\ users' = users
    /\ UNCHANGED <<mainVars, sessions, handlerVars>>

\* the whole program; the registries do not change
Next ==
    \/ MainThread
    \/ Interrupt
    \/ InterruptInDelay
    \/ \E s \in Sessions, msg \in Messages : Deliver(s, msg)
    \/ \E s \in Sessions, b \in FewBackends, f \in FewFails : Complete(s, b, f)
    \/ \E s \in Sessions : SessionEnds(s)

Spec == Init /\ [][Next]_vars

\* the foreground thread keeps running as long as it has a step to take
FairSpec == Spec /\ WF_vars(MainThread)

\* main() idle in its first connection (line 183), reached by LoopTest,
\* Construct, SetCallback, Start, IsReady
Connected ==
    /\ pc = "idle"
    /\ attempt = 0
    /\ mumble = 1
    /\ sessions = [s \in Sessions |-> IF s = 1 THEN Session("started", TRUE, {}, {})
                                               ELSE NoSession]
    /\ pending = "none"
    /\ interrupted = FALSE
    /\ exit = "running"
    /\ connects = 1
    /\ sleeps = 0
    /\ mainLog = {"Connected"}
    /\ regChanges = 0

\* a connected session: messages arrive, the callback answers them, users
\* and channels come and go (at first nobody or everybody is on the server,
\* and the home channel is there)
DispatchInit ==
    /\ Connected
    /\ users \in {{}, UserPool}
    /\ channels \in {c \in SUBSET ChannelPool : MUMBLE_CHANNEL \in c}
    /\ inflight = [s \in Sessions |-> NoMsg]
    /\ last = NotHandled
    /\ msgs = 0
    /\ genCalls = 0

DispatchNext ==
    \/ \E msg \in Messages : Deliver(1, msg)
    \/ \E b \in Backends, f \in FailPoints : Complete(1, b, f)
    \/ RegistryChange

DispatchSpec == DispatchInit /\ [][DispatchNext]_vars

\* a connected session whose callback waits for the reply to a message; the
\* reply is any marked command, the registries are any
CommandInit ==
    /\ Connected
    /\ users \in SUBSET UserPool
    /\ channels \in SUBSET ChannelPool
    /\ inflight = [s \in Sessions |-> IF s = 1 THEN Message(Al, <<"h","i">>) ELSE NoMsg]
    /\ last = NotHandled
    /\ msgs = 1
    /\ genCalls = 1

CommandNext ==
    \E b \in CommandBackends, f \in FailPoints : Complete(1, b, f)

CommandSpec == CommandInit /\ [][CommandNext]_vars

\* the second connection, after a first attempt whose is_ready raised: the
\* session of that attempt is stopped, but its callback still waits for the
\* reply to a message that arrived when only Bo and the home channel were on
\* the server; users and channels come and go while it waits
RaceInit ==
    /\ pc = "idle"
    /\ attempt = 1
    /\ mumble = 2
    /\ sessions = [s \in Sessions |->
                      CASE s = 1 -> Session("stopped", FALSE, {}, {})
                        [] s = 2 -> Session("started", TRUE, {}, {})
                        [] OTHER -> NoSession]
    /\ pending = "none"
    /\ interrupted = FALSE
    /\ exit = "running"
    /\ connects = 2
    /\ sleeps = 1
    /\ mainLog = {"Failed to connect", "Unexpected error", "Retrying connection", "Connected"}
    /\ users = {Bo}
    /\ channels = {MUMBLE_CHANNEL}
    /\ regChanges = 0
    /\ inflight = [s \in Sessions |-> IF s = 1 THEN Message(Al, <<" ","h","i"," ">>) ELSE NoMsg]
    /\ last = NotHandled
    /\ msgs = 1
    /\ genCalls = 1

RaceBackends ==
    { Backend("ok", Text(c)) : c \in {Sure, KickAl, MuteBo, UnmuteAl, MoveBoPub} }

RaceNext ==
    \/ \E msg \in Messages : Deliver(2, msg)
    \/ \E s \in {1, 2}, b \in RaceBackends, f \in FailPoints : Complete(s, b, f)
    \/ RegistryChange

RaceSpec == RaceInit /\ [][RaceNext]_vars

(***************************************************************************)
(* Properties of the connection loop.                                      *)
(***************************************************************************)
Connecting == {"construct", "set_callback", "start", "is_ready"}

\* C1: when every connection attempt fails (and nothing interrupts main and
\* stop() does not raise), main makes exactly 5 attempts, never a 6th, with
\* one completed 5-second delay between consecutive attempts and none after
\* the 5th, then logs the fatal message and terminates - whichever step of
\* connect_to_mumble fails.
C1_FiveAttemptsThenFatal ==
    /\ connects <= retry_attempts
    /\ pc \in Connecting => sleeps = connects - 1
    /\ (pc = "done" /\ ~interrupted /\ exit # "stop_raised") =>
          /\ connects = retry_attempts
          /\ attempt = retry_attempts
          /\ sleeps = retry_attempts - 1
          /\ "Max retry attempts reached" \in mainLog
          /\ exit = "max_retries"

\* C2: once a KeyboardInterrupt has been delivered (during a connection
\* attempt, while idle, or during the retry delay) main only runs its finally
\* clause and ends: no further connection attempt and no new session, and
\* when main has ended stop() has been called on the session the global
\* names (the session is stopped, or that call of stop() itself raised); with
\* no session ever constructed there is none to close.
C2_InterruptTerminates ==
    /\ [](interrupted => pc \in {"finally", "done"})
    /\ [][interrupted => connects' = connects /\ mumble' = mumble]_vars
    /\ []((interrupted /\ pc = "done" /\ mumble # 0) =>
             (sessions[mumble].state = "stopped" \/ exit = "stop_raised"))
    /\ []((interrupted /\ pc = "done" /\ mumble = 0) => Created = {})

\* C2 witness: interrupted during the 5-second delay, main has ended with the
\* KeyboardInterrupt and the session is stopped
C2_Witness ==
    /\ interrupted
    /\ pc = "done"
    /\ exit = "KeyboardInterrupt"
    /\ mumble # 0
    /\ sessions[mumble].state = "stopped"

\* C3: while main idles in Connected, if the session ends, main leaves
\* Connected and goes on to the retry delay and a new connection attempt
\* (unless the user interrupts first).
C3_ReconnectsWhenSessionEnds ==
    (pc = "idle" /\ sessions[mumble].state = "ended" /\ attempt < retry_attempts)
        ~> (pc \in {"retry_sleep", "while", "construct"} \/ interrupted)

\* C4: main ends only by a user interrupt or by the 5th failed attempt.
C4_ExitOnlyByInterruptOrExhaustion ==
    pc = "done" => (interrupted \/ attempt = retry_attempts)

(***************************************************************************)
(* Properties of the callback.                                             *)
(***************************************************************************)
\* the backend's answer is a JSON object whose "content" is a string
HasTextContent(b) ==
    b.kind = "ok" /\ b.body.t = "obj" /\ b.body.has /\ b.body.c.t = "str"

\* ... that is not empty once trimmed: the generated reply
ReplyOf(b) == Strip(b.body.c.s)
HasReply(b) == HasTextContent(b) /\ ReplyOf(b) # <<>>

Final(h) == h.log[Len(h.log)]
Logged(h, rec) == \E i \in 1..Len(h.log) : h.log[i] = rec
Warned(h) == Logged(h, LogRec("warning", "No response generated", <<>>, <<>>))

\* C5: a message whose author is the bot's own username never reaches
\* generate_response (no callback ever waits in a generation call for such a
\* message) and its handling returns having called nothing and sent nothing,
\* for each such message.
C5_OwnMessagesIgnored ==
    /\ \A s \in Sessions : ~(inflight[s].actor = MUMBLE_USERNAME)
    /\ last.msg.actor = MUMBLE_USERNAME =>
          /\ ~last.gen
          /\ last.result = "returned"
          /\ last.calls = <<>>
    /\ genCalls <= msgs
    /\ (last.msg.actor = MUMBLE_USERNAME /\ msgs = 1) => genCalls = 0

\* C5 witness: two messages arrived, the last one from the bot itself, after
\* a message of another user that did call generate_response
C5_Witness ==
    /\ msgs = 2
    /\ genCalls = 1
    /\ last.sid = 1
    /\ last.msg.actor = MUMBLE_USERNAME

\* C6: generate_response never raises: whatever the backend does, the
\* callback gets a value; a non-empty string content yields the trimmed
\* text, everything else is treated as no reply (a warning).
C6_GenerateNeverRaises ==
    last.gen =>
        /\ last.result = "returned"
        /\ IF HasReply(last.backend)
           THEN Logged(last, LogRec("info", "Generated response", ReplyOf(last.backend), <<>>))
           ELSE Warned(last)

\* C7: when the generation call fails (the request fails, or the body has no
\* usable content) the callback makes no call on the chat server, logs the
\* warning and returns; the session stays connected.
C7_FailedGenerationIsSkipped ==
    (last.gen /\ ~HasReply(last.backend)) =>
        /\ last.calls = <<>>
        /\ Warned(last)
        /\ last.result = "returned"
        /\ pc = "idle"
        /\ sessions[last.sid].state = "started"

\* the reply is plain text: not empty, not starting with the marker
PlainReply(h) ==
    h.gen /\ HasReply(h.backend) /\ ~StartsWith(ReplyOf(h.backend), MARKER)

IsSendOf(c, text) ==
    c.op = "send" /\ c.name = MUMBLE_CHANNEL /\ c.text = text

\* C10 as stated: every plain reply is sent, trimmed and unchanged, to the
\* home channel exactly once, and nothing else is called.
C10_PlainReplySentOnce ==
    PlainReply(last) =>
        /\ last.result = "returned"
        /\ Len(last.calls) = 1
        /\ IsSendOf(last.calls[1], ReplyOf(last.backend))

\* C10 amended: for a plain reply the only call ever made is one send of the
\* trimmed, unchanged text to the home channel; it is made exactly once when
\* the lookup of the home channel returns the channel, and not at all when
\* that lookup raises or finds no such channel (which is logged).
C10_PlainReplySentWhenChannelFound ==
    PlainReply(last) =>
        /\ last.result = "returned"
        /\ Len(last.calls) <= 1
        /\ \A i \in 1..Len(last.calls) : IsSendOf(last.calls[i], ReplyOf(last.backend))
        /\ Len(last.calls) = 1 <=>
              (MUMBLE_CHANNEL \in last.env.C /\ last.env.fail # "find_channel")
        /\ Len(last.calls) = 0 =>
              Final(last) = LogRec("error", "Failed to send message", <<>>, <<>>)

\* C10 witness: a reply that had to be trimmed was sent to the home channel
C10_Witness ==
    /\ PlainReply(last)
    /\ last.backend.body.c.s # ReplyOf(last.backend)
    /\ Len(last.calls) = 1
    /\ last.calls[1].ok

(***************************************************************************)
(* Properties of execute_command.                                          *)
(***************************************************************************)
\* the text after the leading marker, and its words
PostMarker(reply) == SubSeq(reply, Len(MARKER) + 1, Len(reply))
WordsOf(reply) == Split(PostMarker(reply))

\* the five recognized forms
Recognized(w) ==
    /\ w # <<>>
    /\ \/ Lower(w[1]) = V_MOVE /\ Len(w) = 3
       \/ Lower(w[1]) \in {V_MUTE, V_UNMUTE, V_KICK} /\ Len(w) = 2
       \/ Lower(w[1]) = V_HELP /\ Len(w) = 1

Marked(h) == h.gen /\ HasReply(h.backend) /\ StartsWith(ReplyOf(h.backend), MARKER)

\* the log messages and the call that belong to a verb
VerbLogs(v) ==
    CASE v = V_MOVE -> {"Moved", "User or channel not found"}
      [] v = V_MUTE -> {"Muted", "User not found"}
      [] v = V_UNMUTE -> {"Unmuted", "User not found"}
      [] v = V_KICK -> {"Kicked", "User not found"}
      [] v = V_HELP -> {"Displayed help message", "Failed to execute command"}
VerbCall(v) ==
    CASE v = V_MOVE -> "move"
      [] v = V_MUTE -> "mute"
      [] v = V_UNMUTE -> "unmute"
      [] v = V_KICK -> "kick"
      [] v = V_HELP -> "send"

\* C8: a marked reply whose post-marker text is a recognized verb with the
\* required number of arguments selects that verb's action (no external call
\* raising), and the action uses the argument words exactly as they are in
\* the reply, in order: the first as the user name, the second as the channel.
C8_ArgumentsVerbatim ==
    (Marked(last) /\ Recognized(WordsOf(ReplyOf(last.backend))) /\ last.env.fail = "none") =>
        LET w == WordsOf(ReplyOf(last.backend))
            v == Lower(w[1])
        IN  /\ Final(last).msg \in VerbLogs(v)
            /\ \A i \in 1..Len(last.calls) : last.calls[i].op = VerbCall(v)
            /\ v # V_HELP =>
                  /\ Final(last).a = w[2]
                  /\ \A i \in 1..Len(last.calls) : last.calls[i].name = w[2]
            /\ v = V_MOVE =>
                  /\ Final(last).b = w[3]
                  /\ \A i \in 1..Len(last.calls) : last.calls[i].chan = ChannelId(w[3])

\* C9: a marked reply whose post-marker text is no recognized form (unknown
\* verb, wrong number of arguments, nothing at all) is reported as an invalid
\* command carrying the post-marker text, and no call is made on the server.
C9_InvalidCommandReported ==
    (Marked(last) /\ ~Recognized(WordsOf(ReplyOf(last.backend)))) =>
        /\ last.calls = <<>>
        /\ Final(last) = LogRec("error", "Invalid command",
                                Strip(PostMarker(ReplyOf(last.backend))), <<>>)

\* C11: for a /move command with a user name and a channel name, the only
\* call ever made is the move of the named user to the id of the named
\* channel; it is made if and only if both names resolve in the registries at
\* execution time (the lookups and the call returning), and if either does not
\* resolve the not-found error naming both is logged and no call is made.
C11_MoveIffBothResolve ==
    LET w == WordsOf(ReplyOf(last.backend)) IN
    (Marked(last) /\ Len(w) = 3 /\ Lower(w[1]) = V_MOVE) =>
        LET resolves == w[2] \in last.env.U /\ w[3] \in last.env.C IN
        /\ Len(last.calls) <= 1
        /\ \A i \in 1..Len(last.calls) :
              /\ resolves
              /\ last.calls[i].op = "move"
              /\ last.calls[i].name = w[2]
              /\ last.calls[i].chan = ChannelId(w[3])
        /\ (last.env.fail = "none" /\ resolves) =>
              Len(last.calls) = 1 /\ last.calls[1].ok
        /\ (last.env.fail \in {"none", "call"} /\ ~resolves) =>
              Final(last) = LogRec("error", "User or channel not found", w[2], w[3])

UserVerbs == {V_MUTE, V_UNMUTE, V_KICK}

\* C12: for a /mute, /unmute or /kick command with a user name, the only call
\* ever made is the corresponding one on the named user; it is made, once, if
\* the name resolves at execution time (the lookup and the call returning),
\* and if the name does not resolve the not-found error naming it is logged
\* and no call is made.
C12_UserActionIffResolves ==
    LET w == WordsOf(ReplyOf(last.backend)) IN
    (Marked(last) /\ Len(w) = 2 /\ Lower(w[1]) \in UserVerbs) =>
        LET resolves == w[2] \in last.env.U IN
        /\ Len(last.calls) <= 1
        /\ \A i \in 1..Len(last.calls) :
              /\ resolves
              /\ last.calls[i].op = VerbCall(Lower(w[1]))
              /\ last.calls[i].name = w[2]
        /\ (last.env.fail = "none" /\ resolves) =>
              Len(last.calls) = 1 /\ last.calls[1].ok
        /\ (last.env.fail \in {"none", "call"} /\ ~resolves) =>
              Final(last) = LogRec("error", "User not found", w[2], <<>>)

\* what execute_command logs last when it fails: a name that is not found,
\* a command that is not valid, or an exception it caught
FailureLogs ==
    {"User or channel not found", "User not found", "Invalid command",
     "Failed to execute command"}
SuccessLogs == {"Moved", "Muted", "Unmuted", "Kicked", "Displayed help message"}

\* C13: execute_command always returns to on_message_received, which
\* returns too: whatever the command text, the registries and the call that
\* raises, the session stays started and main stays idle; the handling ends
\* with a success line exactly when a call was made and returned, and with an
\* error line otherwise (a call that raised is followed by the error line of
\* the except clause).
C13_ExecuteNeverRaises ==
    Marked(last) =>
        /\ last.result = "returned"
        /\ sessions[last.sid].state = "started"
        /\ pc = "idle"
        /\ Final(last).msg \in FailureLogs \cup SuccessLogs
        /\ Final(last).msg \in FailureLogs => Final(last).lvl = "error"
        /\ Final(last).msg \in SuccessLogs <=>
              (Len(last.calls) = 1 /\ last.calls[1].ok)
        /\ (\E i \in 1..Len(last.calls) : ~last.calls[i].ok) =>
              Final(last) = LogRec("error", "Failed to execute command", <<>>, <<>>)

\* C13 witness: the home channel is missing when /help is executed: the
\* lookup yields nothing to send on, and the failure is logged
C13_Witness ==
    /\ Marked(last)
    /\ WordsOf(ReplyOf(last.backend)) # <<>>
    /\ Lower(WordsOf(ReplyOf(last.backend))[1]) = V_HELP
    /\ MUMBLE_CHANNEL \notin last.env.C
    /\ last.env.fail = "none"
    /\ last.calls = <<>>
    /\ Final(last) = LogRec("error", "Failed to execute command", <<>>, <<>>)

(***************************************************************************)
(* Properties of the callback's failures and of its effects.               *)
(***************************************************************************)
\* the plain reply of a handled message was not sent: the home channel was
\* not found, or its lookup or the send raised
SendFailed(h) ==
    PlainReply(h) /\ (h.calls = <<>> \/ ~h.calls[1].ok)

\* the step in which the callback of session s finishes
Finishes(s) == inflight[s] # NoMsg /\ inflight'[s] = NoMsg

\* C14: when the send of a plain reply fails (no home channel, the lookup
\* raises, the send raises) the callback logs the failure and returns: that
\* step changes neither the session nor anything of main, the session stays
\* started with its callback registered and free to take the next message.
C14_SendFailureIsLogged ==
    /\ [](SendFailed(last) =>
             /\ last.result = "returned"
             /\ Final(last) = LogRec("error", "Failed to send message", <<>>, <<>>)
             /\ sessions[last.sid].state = "started"
             /\ sessions[last.sid].cb)
    /\ [][\A s \in Sessions : (Finishes(s) /\ SendFailed(last')) =>
             /\ sessions' = sessions
             /\ mainVars' = mainVars
             /\ inflight'[s] = NoMsg]_vars

\* C14 witness: after a send that raised, the next message of the session
\* has been delivered and is being handled
C14_Witness ==
    /\ SendFailed(last)
    /\ last.calls # <<>>
    /\ msgs = 2
    /\ inflight[last.sid] # NoMsg

Moderation == {"move", "mute", "unmute", "kick"}

\* C19: the handling of one message makes at most one call on the chat
\* server (counting a call that raised): one send of text to the home channel
\* or one moderation call, never both; a plain reply only ever sends, a marked
\* reply never sends the reply or any text starting with the marker (the only
\* text a command sends is the help text), and a message that is ignored or
\* whose generation fails calls nothing.
C19_AtMostOneEffect ==
    /\ Len(last.calls) <= 1
    /\ \A i \in 1..Len(last.calls) :
          \/ last.calls[i].op \in Moderation
          \/ last.calls[i].op = "send" /\ last.calls[i].name = MUMBLE_CHANNEL
    /\ Marked(last) =>
          \A i \in 1..Len(last.calls) :
              last.calls[i].op = "send" =>
                  /\ last.calls[i].text = HELP_MESSAGE
                  /\ ~StartsWith(last.calls[i].text, MARKER)
    /\ PlainReply(last) =>
          \A i \in 1..Len(last.calls) : last.calls[i].op = "send"
    /\ (~Marked(last) /\ ~PlainReply(last)) => last.calls = <<>>

\* C19 witness: a marked reply made its one moderation call, and nothing
\* was sent
C19_Witness ==
    /\ Marked(last)
    /\ Len(last.calls) = 1
    /\ last.calls[1].op = "move"
    /\ last.calls[1].ok

(***************************************************************************)
(* Properties of the sessions and of the retry counter.                    *)
(***************************************************************************)
\* the sessions whose callback is blocked in a generation call
Generating == {s \in Sessions : inflight[s] # NoMsg}

\* C15: at every moment at most one generation request is in flight, also
\* when a failed attempt is followed by a reconnect while the callback of the
\* old session is still in its generation call.
C15_OneGenerationInFlight == Cardinality(Generating) <= 1

\* the sessions that are started and not stopped
Running == {s \in Sessions : sessions[s].state = "started"}

\* C16: at most one session is started and not stopped at any time; when a
\* new session is created every session created before it has been stopped;
\* and when main has ended the global names the last session created, on
\* which stop() has been called (it is stopped, or that stop() raised).
C16_OneSessionAtATime ==
    /\ [](Cardinality(Running) <= 1)
    /\ [][mumble' # mumble =>
             \A s \in Created : sessions[s].state = "stopped"]_vars
    /\ []((pc = "done" /\ mumble # 0) =>
             /\ mumble = Cardinality(Created)
             /\ sessions[mumble].state = "stopped" \/ exit = "stop_raised")

\* C16 witness: the second attempt runs its session, the session of the
\* failed first attempt is stopped
C16_Witness ==
    /\ mumble = 2
    /\ sessions[1].state = "stopped"
    /\ sessions[2].state = "started"

\* C18: a session is started only with the callback already registered on
\* it, so every started session, and the session main is connected with, has
\* on_message_received as its handler.
C18_HandlerBeforeStart ==
    /\ [](\A s \in Sessions : sessions[s].state = "started" => sessions[s].cb)
    /\ [](pc \in {"is_ready", "idle"} => sessions[mumble].cb)
    /\ [][\A s \in Sessions :
             (sessions[s].state # "started" /\ sessions'[s].state = "started") =>
                 sessions[s].cb]_vars

\* C18 witness: a message reached the callback of a session that had just
\* been started, before connect_to_mumble returned
C18_Witness ==
    /\ pc = "is_ready"
    /\ sessions[mumble].state = "started"
    /\ inflight[mumble] # NoMsg

\* a step of connect_to_mumble raises an exception (not an interrupt)
AttemptFails ==
    /\ pc \in Connecting
    /\ pc' \in {"retry_sleep", "finally"}
    /\ interrupted' = interrupted

\* C20: the counter of failed attempts stays within 0..5, changes only by
\* +1 and exactly in the steps in which a connection attempt fails, and
\* connect_to_mumble is called at most 5 times.
C20_AttemptCounter ==
    /\ [](attempt \in 0..retry_attempts /\ connects <= retry_attempts)
    /\ [][attempt' = attempt \/ attempt' = attempt + 1]_vars
    /\ [][attempt' # attempt <=> AttemptFails]_vars

\* C20 witness: five attempts failed, one of them after its session had
\* handled a message
C20_Witness ==
    /\ attempt = retry_attempts
    /\ connects = retry_attempts
    /\ pc = "done"
    /\ last.gen
    /\ last.result = "returned"

(***************************************************************************)
(* Properties of name resolution while the registries change.              *)
(***************************************************************************)
\* the moderation call that the command of a handled message asks for has
\* been made, on the user the command names
Performed(h) ==
    LET w == WordsOf(ReplyOf(h.backend)) IN
    /\ Len(h.calls) = 1
    /\ h.calls[1].op = VerbCall(Lower(w[1]))
    /\ h.calls[1].name = w[2]
    /\ h.calls[1].ok

\* the names in the command of a handled message are among the user names U
\* and the channel names C
Resolves(h, U, C) ==
    LET w == WordsOf(ReplyOf(h.backend)) IN
    /\ w[2] \in U
    /\ Lower(w[1]) = V_MOVE => w[3] \in C

\* the reply of a handled message is a /move, /mute, /unmute or /kick command
\* with its arguments
ModerationCommand(h) ==
    /\ Marked(h)
    /\ Recognized(WordsOf(ReplyOf(h.backend)))
    /\ Lower(WordsOf(ReplyOf(h.backend))[1]) # V_HELP

\* C17: in the step in which a callback finishes, names are looked up in
\* the registries as they are in that step and every call goes through the
\* session the global names in that step: a moderation command (no call
\* raising) is performed exactly when its names are on the server then,
\* whatever was on the server when the message arrived.
C17_ResolvedAtExecution ==
    [][\A s \in Sessions : Finishes(s) =>
          /\ last'.sid = s
          /\ last'.env.m = mumble
          /\ \A i \in 1..Len(last'.calls) : last'.calls[i].sid = mumble
          /\ (ModerationCommand(last') /\ last'.env.fail = "none") =>
                 (Performed(last') <=> Resolves(last', users, channels))]_vars

\* C17 witness: the callback of the stopped first session kicked Al through
\* the second session; Al was not on the server when the message arrived
C17_Witness ==
    /\ last.sid = 1
    /\ ModerationCommand(last)
    /\ Performed(last)
    /\ last.calls[1].op = "kick"
    /\ last.calls[1].name = Al
    /\ last.calls[1].sid = 2

====
